---- MODULE Spec2Model ----
(***************************************************************************)
(* Model of pgsignals/utils.py: the schema manager (bind_table,            *)
(* unbind_table, create_emit_func, create_emit_func_once), the database    *)
(* side capture routine (emit_event trigger function) and the listen loop  *)
(* with its decoder and dispatcher.                                        *)
(***************************************************************************)
EXTENDS Integers, Sequences, FiniteSets, TLC

\* ---------------------------------------------------------------- bounds
\* row mutations plus direct NOTIFY commands in one behaviour
MaxSignals == 2
\* calls of the schema manager entry points in one behaviour
MaxCalls == 2
\* the wall clock runs from 0 to MaxTime seconds
MaxTime == 3
\* schema manager calls in one behaviour of the whole pipeline
MaxPipelineCalls == 1
\* row mutations in one behaviour of bind_table run statement by statement
MaxGapMutations == 1

\* ------------------------------------------------------------ universe
Pairs == {<<"db1", "s1">>, <<"db1", "s2">>}
Tables == {"t1"}
Db(p) == p[1]
Databases == {Db(p) : p \in Pairs}

\* an absent optional value (Python None) is the empty tuple, a present
\* one the 1-tuple of the value
None == <<>>
Some(x) == <<x>>

NoError == "ok"

\* ------------------------------------------------------------ EventKind
EventKind == {"INSERT", "UPDATE", "DELETE"}
ALL_EVENTS == EventKind

is_create(op) == op = "INSERT"
is_update(op) == op = "UPDATE"
is_save(op) == is_create(op) \/ is_update(op)
is_delete(op) == op = "DELETE"

VARIABLES
    triggers,        \* database catalog: set of [pair, table, ops]
    routine,         \* [Pairs -> BOOLEAN]: "<schema>"."<prefix>__emit_event" exists
    staging_table,   \* [Pairs -> BOOLEAN]: "<schema>"."<prefix>__events" exists
    staging,         \* rows of the staging log tables, in insertion order
    func_created,    \* the module global _func_created
    module_globals,  \* the other names bound in the module namespace
    last_call,       \* the last schema manager call that ran, with its outcome
    calls,           \* number of schema manager calls so far
    bound_pairs,     \* pairs that received bind_table with a non-empty set
    txid,            \* the database's transaction counter
    signals_sent,    \* number of mutations and NOTIFY commands so far
    committed,       \* committed row mutations, in commit order
    now,             \* wall clock (seconds)
    lpc,             \* position of the listen() call
    lparams,         \* arguments of the listen() call
    started_at,      \* listen's started_at
    wait_from,       \* when the current select.select began
    channel,         \* notifications on the connection's socket, not yet polled
    notifies,        \* conn.notifies
    dispatched,      \* handler group invocations, in order
    processed,       \* notifications handed to the loop body, in order
    lerr,            \* the exception that ended listen, if any
    binds,           \* the bind_table calls run statement by statement, per thread
    db_down,         \* the database refuses statements
    installs,        \* executions of CREATE OR REPLACE FUNCTION that succeeded
    overlapped       \* two calls were between DROP and CREATE TRIGGER of one table at once

dbvars == <<triggers, routine, staging_table, func_created, last_call, calls,
            bound_pairs>>
lvars == <<lpc, lparams, started_at, wait_from, notifies, dispatched,
           processed, lerr>>
cvars == <<binds, db_down, installs, overlapped>>
vars == <<triggers, routine, staging_table, staging, func_created,
          module_globals, last_call, calls, bound_pairs, txid, signals_sent,
          committed, now, lpc, lparams, started_at, wait_from, channel,
          notifies, dispatched, processed, lerr, binds, db_down, installs,
          overlapped>>

\* ------------------------------------------------------ schema manager
\* The part of the state the schema manager reads and writes.
World == [triggers |-> triggers, routine |-> routine,
          func_created |-> func_created, err |-> NoError]

HasTrigger(trs, t, p) == \E g \in trs : g.pair = p /\ g.table = t

\* DROP TRIGGER IF EXISTS "<prefix>__<table>" ON "<schema>"."<table>"
DROP_TRIGGER(w, t, p) ==
    [w EXCEPT !.triggers = {g \in @ : ~(g.pair = p /\ g.table = t)}]

\* CREATE OR REPLACE TRIGGER: an existing trigger of the name is replaced
CREATE_OR_REPLACE_TRIGGER(w, t, S, p) ==
    IF ~w.routine[p] THEN [w EXCEPT !.err = "UndefinedFunction"]
    ELSE [w EXCEPT !.triggers = {g \in @ : ~(g.pair = p /\ g.table = t)}
                                 \cup {[pair |-> p, table |-> t, ops |-> S]}]

\* CREATE TRIGGER "<prefix>__<table>" AFTER <operations> ON ... EXECUTE
\* PROCEDURE "<schema>"."<prefix>__emit_event"(): the database rejects it
\* when the function is missing or the trigger name is taken on the table.
CREATE_TRIGGER(w, t, S, p) ==
    IF ~w.routine[p] THEN [w EXCEPT !.err = "UndefinedFunction"]
    ELSE IF HasTrigger(w.triggers, t, p) THEN [w EXCEPT !.err = "DuplicateObject"]
    ELSE [w EXCEPT !.triggers = @ \cup {[pair |-> p, table |-> t, ops |-> S]}]

\* CREATE FUNCTION without OR REPLACE: rejected when the function exists
CREATE_FUNCTION_ONLY(w, p) ==
    IF w.routine[p] THEN [w EXCEPT !.err = "DuplicateFunction"]
    ELSE [w EXCEPT !.routine[p] = TRUE]

\* CREATE OR REPLACE FUNCTION "<schema>"."<prefix>__emit_event"()
CREATE_EMIT_FUNC(w, p) == [w EXCEPT !.routine[p] = TRUE]

create_emit_func(w, p) == CREATE_EMIT_FUNC(w, p)

create_emit_func_once(w, p) ==
    IF ~w.func_created
    THEN [create_emit_func(w, p) EXCEPT !.func_created = TRUE]
    ELSE w

\* unbind_table whose DROP TRIGGER lacks IF EXISTS
unbind_table_without_if_exists(w, t, p) ==
    IF HasTrigger(w.triggers, t, p)
    THEN DROP_TRIGGER(w, t, p)
    ELSE [w EXCEPT !.err = "UndefinedObject"]

\* unbind_table without its DROP TRIGGER
unbind_table_keeps_trigger(w, t, p) == w

unbind_table(w, t, p) == DROP_TRIGGER(w, t, p)

bind_table(w, t, S, p) ==
    LET w1 == unbind_table(w, t, p) IN
    IF Cardinality(S) > 0
    THEN CREATE_TRIGGER(create_emit_func_once(w1, p), t, S, p)
    ELSE w1

\* One call of a schema manager entry point: w is the state it leaves.
Call(op, t, S, p, w) ==
    /\ calls < MaxCalls
    /\ calls' = calls + 1
    /\ triggers' = w.triggers
    /\ routine' = w.routine
    /\ func_created' = w.func_created
    /\ last_call' = [op |-> op, table |-> t, events |-> S, pair |-> p,
                     had_trigger |-> HasTrigger(triggers, t, p), err |-> w.err]
    /\ bound_pairs' = IF op = "bind_table" /\ S # {}
                      THEN bound_pairs \cup {p} ELSE bound_pairs
    /\ UNCHANGED <<staging_table, staging, module_globals, txid, signals_sent,
                   committed, now, channel>>
    /\ UNCHANGED lvars
    /\ UNCHANGED cvars

BindTable(t, S, p) == Call("bind_table", t, S, p, bind_table(World, t, S, p))
UnbindTable(t, p) == Call("unbind_table", t, {}, p, unbind_table(World, t, p))
CreateEmitFunc(p) == Call("create_emit_func", "", {}, p, create_emit_func(World, p))
CreateEmitFuncOnce(p) ==
    Call("create_emit_func_once", "", {}, p, create_emit_func_once(World, p))

\* ------------------------------------- bind_table, statement by statement
\* Threads of the process that call bind_table.  Every statement of the
\* call is a step of its own, so that two calls interleave and the
\* database can fail between two statements.
Threads == {"a", "b"}

IdleBind == [pc |-> "idle", table |-> "", events |-> {}, pair |-> <<"", "">>,
             err |-> NoError, old_ops |-> {}, retry_of |-> "none",
             stage |-> "none", hit |-> FALSE,
             entry |-> [triggers |-> {}, routine |-> [p \in Pairs |-> FALSE],
                        func_created |-> FALSE, err |-> NoError]]

\* _func_created set before create_emit_func is called
NextStepFlagFirst(pc, S, flag) ==
    CASE pc = "enter" -> "drop"
      [] pc = "drop" -> IF Cardinality(S) > 0 THEN "once" ELSE "done"
      [] pc = "once" -> IF ~flag THEN "flag" ELSE "trigger"
      [] pc = "flag" -> "install"
      [] pc = "install" -> "trigger"
      [] pc = "trigger" -> "done"

\* the old trigger dropped only right before the new one is created
NextStepDropLast(pc, S, flag) ==
    CASE pc = "enter" -> IF Cardinality(S) > 0 THEN "once" ELSE "drop"
      [] pc = "once" -> IF ~flag THEN "install" ELSE "drop"
      [] pc = "install" -> "flag"
      [] pc = "flag" -> "drop"
      [] pc = "drop" -> IF Cardinality(S) > 0 THEN "trigger" ELSE "done"
      [] pc = "trigger" -> "done"

\* The order of the statements of bind_table and create_emit_func_once:
\* unbind_table (DROP TRIGGER); if len(events) > 0: the read of
\* _func_created, create_emit_func and _func_created = True when it was
\* false; CREATE TRIGGER.
NextStep(pc, S, flag) ==
    CASE pc = "enter" -> "drop"
      [] pc = "drop" -> IF Cardinality(S) > 0 THEN "once" ELSE "done"
      [] pc = "once" -> IF ~flag THEN "install" ELSE "trigger"
      [] pc = "install" -> "flag"
      [] pc = "flag" -> "trigger"
      [] pc = "trigger" -> "done"

\* the positions of a call between its DROP TRIGGER and its CREATE TRIGGER
GapSteps == {"once", "install", "flag", "trigger"}

\* some call is between DROP TRIGGER and CREATE TRIGGER of table t in pair p
InGap(bs, t, p) ==
    \E th \in Threads :
        bs[th].pc \in GapSteps /\ bs[th].table = t /\ bs[th].pair = p

\* both calls are between DROP TRIGGER and CREATE TRIGGER of one table
BothInGap(bs) ==
    /\ \A th \in Threads : bs[th].pc \in GapSteps
    /\ \A th, ot \in Threads :
          bs[th].table = bs[ot].table /\ bs[th].pair = bs[ot].pair

\* the kinds the trigger of table t in pair p fires on, {} without trigger
OpsOn(trs, t, p) == UNION {g.ops : g \in {h \in trs : h.pair = p /\ h.table = t}}

\* _execute_sql: cursor.execute(sql) raises when the database refuses the
\* statement, and then the statement has done nothing; w2 is the state
\* the statement leaves otherwise.
execute_sql(w, w2) ==
    IF db_down THEN [w EXCEPT !.err = "OperationalError"] ELSE w2

stepframe == <<staging_table, staging, module_globals, last_call, txid,
               signals_sent, committed, now, channel>>

\* bind_table(table, events, using, schema) is called on thread th
BindEnter(th, t, S, p) ==
    /\ binds[th].pc \in {"idle", "done"}
    /\ calls < MaxCalls
    /\ calls' = calls + 1
    /\ bound_pairs' = IF S # {} THEN bound_pairs \cup {p} ELSE bound_pairs
    /\ LET retry == /\ binds[th].err = "OperationalError"
                     /\ binds[th].table = t
                     /\ binds[th].events = S
                     /\ binds[th].pair = p
       IN binds' = [binds EXCEPT ![th] =
             [pc |-> NextStep("enter", S, func_created), table |-> t,
              events |-> S, pair |-> p, err |-> NoError,
              old_ops |-> OpsOn(triggers, t, p),
              retry_of |-> IF retry THEN binds[th].stage ELSE "none",
              stage |-> "none", hit |-> FALSE,
              entry |-> IF retry THEN binds[th].entry ELSE World]]
    /\ UNCHANGED <<triggers, routine, func_created, db_down, installs, overlapped>>
    /\ UNCHANGED stepframe
    /\ UNCHANGED lvars

\* Thread th runs the statement at its position: w is the state the
\* statement leaves, with the exception it raised if any (the exception
\* leaves bind_table, nothing catches it); sql tells a database statement
\* from a statement of the process.
Run(th, w, sql) ==
    LET b == binds[th]
        r == [b EXCEPT !.pc = IF w.err = NoError
                              THEN NextStep(b.pc, b.events, w.func_created)
                              ELSE "done",
                       !.err = w.err,
                       !.stage = b.pc,
                       !.hit = @ \/ (sql /\ db_down)]
    IN /\ triggers' = w.triggers
       /\ routine' = w.routine
       /\ func_created' = w.func_created
       /\ binds' = [binds EXCEPT ![th] = r]
       /\ installs' = IF b.pc = "install" /\ w.err = NoError
                      THEN installs + 1 ELSE installs
       /\ overlapped' = (overlapped \/ BothInGap([binds EXCEPT ![th] = r]))
       /\ UNCHANGED <<calls, bound_pairs, db_down>>
       /\ UNCHANGED stepframe
       /\ UNCHANGED lvars

\* unbind_table(table, using, schema): DROP TRIGGER IF EXISTS
BindDrop(th) ==
    /\ binds[th].pc = "drop"
    /\ Run(th, execute_sql(World, unbind_table(World, binds[th].table, binds[th].pair)), TRUE)

\* if not _func_created:
BindOnceRead(th) ==
    /\ binds[th].pc = "once"
    /\ Run(th, World, FALSE)

\* create_emit_func(db, schema)
BindInstall(th) ==
    /\ binds[th].pc = "install"
    /\ Run(th, execute_sql(World, create_emit_func(World, binds[th].pair)), TRUE)

\* _func_created = True
BindSetFlag(th) ==
    /\ binds[th].pc = "flag"
    /\ Run(th, [World EXCEPT !.func_created = TRUE], FALSE)

\* _execute_sql(db, CREATE_TRIGGER.format(..))
BindCreateTrigger(th) ==
    /\ binds[th].pc = "trigger"
    /\ Run(th, execute_sql(World, CREATE_TRIGGER(World, binds[th].table,
                                                  binds[th].events, binds[th].pair)),
           TRUE)

\* the database stops accepting statements, and accepts them again
DbFails ==
    /\ ~db_down
    /\ db_down' = TRUE
    /\ UNCHANGED <<triggers, routine, func_created, calls, bound_pairs, binds,
                   installs, overlapped>>
    /\ UNCHANGED stepframe
    /\ UNCHANGED lvars

DbRecovers ==
    /\ db_down
    /\ db_down' = FALSE
    /\ UNCHANGED <<triggers, routine, func_created, calls, bound_pairs, binds,
                   installs, overlapped>>
    /\ UNCHANGED stepframe
    /\ UNCHANGED lvars

\* ------------------------------------------------- capture routine
Null == "null"
Rows == {"r1"}

\* row_to_json(OLD) and row_to_json(NEW): OLD is null on INSERT, NEW on DELETE
RowBefore(op, row) == IF op = "INSERT" THEN Null ELSE row
RowAfter(op, row) == IF op = "DELETE" THEN Null ELSE row

\* A notification payload is a text: not JSON at all ("text"), a JSON
\* object with its members ("object"), or some other JSON value ("array").
EmptyText == [shape |-> "text", obj |-> [empty |-> TRUE]]
NonObject == [shape |-> "array", obj |-> [empty |-> TRUE]]
JsonObject(o) == [shape |-> "object", obj |-> o]

\* json_build_object('txid', .., 'operation', TG_OP, 'table', TG_TABLE_NAME,
\*                   'row_before', row_to_json(OLD), 'row_after', row_to_json(NEW))
json_build_object(tx, op, t, row) ==
    [txid |-> tx, operation |-> op, table |-> t,
     row_before |-> RowBefore(op, row), row_after |-> RowAfter(op, row)]

\* "<prefix>__emit_event" handing the JSON object to pg_notify as well
emit_event_inline(tx, op, t, row, p) ==
    [row |-> [pair |-> p, payload |-> json_build_object(tx, op, t, row)],
     notify |-> JsonObject(json_build_object(tx, op, t, row))]

\* The body of "<prefix>__emit_event": the row it inserts into the staging
\* log and the payload it hands to pg_notify.
emit_event(tx, op, t, row, p) ==
    [row |-> [pair |-> p, payload |-> json_build_object(tx, op, t, row)],
     notify |-> EmptyText]

\* the listen() call holds a LISTEN on database d and is still polling
Listening(d) == lpc \in {"top", "select", "drain"} /\ lparams.db = d

Fires(t, op, p) == \E g \in triggers : g.pair = p /\ g.table = t /\ op \in g.ops

\* A transaction that changes one row of table t in pair p.  An AFTER ...
\* FOR EACH ROW trigger on the table runs emit_event inside the
\* transaction; an error in it (the staging table is missing) aborts the
\* transaction.  pg_notify is delivered at commit to the sessions that
\* LISTEN on the database.
Mutate(t, op, row, p) ==
    /\ signals_sent < MaxSignals
    /\ signals_sent' = signals_sent + 1
    /\ txid' = txid + 1
    /\ LET fired == Fires(t, op, p)
           em == emit_event(txid, op, t, row, p)
       IN IF fired /\ ~staging_table[p]
          THEN UNCHANGED <<staging, channel, committed>>
          ELSE /\ committed' = Append(committed,
                      [txid |-> txid, pair |-> p, table |-> t, kind |-> op,
                       row |-> row, captured |-> fired,
                       heard |-> Listening(Db(p)),
                       gap |-> InGap(binds, t, p)])
               /\ staging' = IF fired THEN Append(staging, em.row) ELSE staging
               /\ channel' = IF fired /\ Listening(Db(p))
                             THEN Append(channel, [payload |-> em.notify, src |-> txid])
                             ELSE channel
    /\ UNCHANGED <<module_globals, now>>
    /\ UNCHANGED dbvars
    /\ UNCHANGED cvars
    /\ UNCHANGED lvars

\* Payloads another session can put on the channel with NOTIFY.
WellFormed(tx, op, t, row) == JsonObject(json_build_object(tx, op, t, row))
MissingOperation(tx, t, row) ==
    JsonObject([txid |-> tx, table |-> t, row_before |-> Null, row_after |-> row])
MissingTxid(op, t, row) ==
    JsonObject([operation |-> op, table |-> t, row_before |-> RowBefore(op, row),
                row_after |-> RowAfter(op, row)])
OperationStrings == EventKind \cup {"FOO", "insert"}
\* the table names a payload may carry: "t0" is the table of no model
PayloadTables == Tables \cup {"t0"}
NotifyPayloads(tx) ==
    {WellFormed(tx, op, t, row) : op \in OperationStrings, t \in Tables, row \in Rows}
    \cup {WellFormed(tx, op, t, row) : op \in EventKind, t \in PayloadTables, row \in Rows}
    \cup {MissingOperation(tx, t, row) : t \in Tables, row \in Rows}
    \cup {MissingTxid("INSERT", t, row) : t \in Tables, row \in Rows}
    \cup {EmptyText, NonObject}

\* NOTIFY <prefix>__events, '<payload>' committed by some session on d.
Notify(d) ==
    /\ signals_sent < MaxSignals
    /\ Listening(d)
    /\ signals_sent' = signals_sent + 1
    /\ txid' = txid + 1
    /\ \E payload \in NotifyPayloads(txid) :
          channel' = Append(channel, [payload |-> payload, src |-> txid])
    /\ UNCHANGED <<staging, module_globals, committed, now>>
    /\ UNCHANGED dbvars
    /\ UNCHANGED cvars
    /\ UNCHANGED lvars

\* ------------------------------------------------------------ decoder
EventFields == {"txid", "operation", "table", "row_before", "row_after"}

\* the exceptions the except clause of the loop body catches
Caught == {"JSONDecodeError"}

\* The try / except / else of the loop body up to Event(**_notify):
\* json.loads raises JSONDecodeError on a text that is not JSON,
\* _notify["operation"] raises TypeError on a JSON value that is not an
\* object and KeyError on an object without the member, EventKind(..)
\* raises ValueError on a string that is not a member's value, and
\* Event(**_notify) raises TypeError unless the members are the five fields.
Decode(payload) ==
    IF payload.shape = "text" THEN [err |-> "JSONDecodeError"]
    ELSE IF payload.shape # "object" THEN [err |-> "TypeError"]
    ELSE IF "operation" \notin DOMAIN payload.obj THEN [err |-> "KeyError"]
    ELSE IF payload.obj.operation \notin EventKind THEN [err |-> "ValueError"]
    ELSE IF DOMAIN payload.obj # EventFields THEN [err |-> "TypeError"]
    ELSE [err |-> NoError, event |-> payload.obj]

\* --------------------------------------------------------- dispatcher
\* tables that some model of apps.get_models() maps to
ModelTables == {"t1"}

table_to_model(t) == IF t \in ModelTables THEN Some(t) ELSE None

\* The signals the loop body sends for an event of kind op, in order.
SendSignals(op) ==
    <<"pgsignals_event">>
    \o (IF is_create(op) THEN <<"pgsignals_insert_event">> ELSE <<>>)
    \o (IF is_save(op) THEN <<"pgsignals_insert_or_update_event">>
        ELSE IF is_update(op) THEN <<"pgsignals_update_event">>
        ELSE IF is_delete(op) THEN <<"pgsignals_delete_event">>
        ELSE <<>>)

\* Signal.send with every receiver's exception caught (send_robust)
SentAll(gs, k) == gs

\* The sends are outside any try: Signal.send re-raises what a receiver
\* raises, and the exception leaves the loop body.  Of the sends gs of one
\* event, those made when a receiver of the k-th raises (k = 0: none does).
Sent(gs, k) == IF k = 0 THEN gs ELSE SubSeq(gs, 1, k)

\* an event whose sender is None is not dispatched
InvocationsUnlessNoSender(event, src, k) ==
    IF table_to_model(event.table) = None THEN <<>>
    ELSE LET gs == Sent(SendSignals(event.operation), k) IN
         [i \in 1..Len(gs) |->
             [group |-> gs[i], src |-> src, txid |-> event.txid,
              operation |-> event.operation, table |-> event.table,
              sender |-> table_to_model(event.table),
              row_before |-> event.row_before, row_after |-> event.row_after,
              raised |-> i = k]]

\* the handler group invocations for one decoded event, a receiver of the
\* k-th group raising
Invocations(event, src, k) ==
    LET gs == Sent(SendSignals(event.operation), k) IN
    [i \in 1..Len(gs) |->
        [group |-> gs[i], src |-> src, txid |-> event.txid,
         operation |-> event.operation, table |-> event.table,
         sender |-> table_to_model(event.table),
         row_before |-> event.row_before, row_after |-> event.row_after,
         raised |-> i = k]]

\* ------------------------------------------------------------ listener
\* the default of listen's poll_timeout
DEFAULT_POLL_TIMEOUT == 5
PollTimeouts == {1, 2}
ListenTimeouts == {None, Some(1)}
EventsLimits == {None, Some(1)}

\* timedelta.seconds: the seconds within the day
SecondsPerDay == 86400
Seconds(d) == d % SecondsPerDay

\* truth value of an optional number
Truthy(v) == v # None /\ v[1] # 0

\* cursor.execute('LISTEN <prefix>__events'); started_at = _now()
ListenStart(d, pt, lt, el) ==
    /\ lpc = "init"
    /\ lpc' = "top"
    /\ lparams' = [db |-> d, poll_timeout |-> pt, listen_timeout |-> lt,
                   events_limit |-> el]
    /\ started_at' = now
    /\ UNCHANGED <<staging, module_globals, txid, signals_sent, committed, now,
                   channel, wait_from, notifies, dispatched, processed, lerr>>
    /\ UNCHANGED dbvars
    /\ UNCHANGED cvars

\* The top of iter_notifies' while True: the stop test reads the free name
\* stop_secs, which Python looks up in the module namespace.
IterTop ==
    /\ lpc = "top"
    /\ IF "stop_secs" \notin DOMAIN module_globals
       THEN /\ lpc' = "failed"
            /\ lerr' = "NameError"
            /\ UNCHANGED wait_from
       ELSE LET stop_secs == module_globals["stop_secs"] IN
            IF Truthy(stop_secs) /\ Seconds(now - started_at) >= stop_secs[1]
            THEN /\ lpc' = "done"
                 /\ UNCHANGED <<lerr, wait_from>>
            ELSE /\ lpc' = "select"
                 /\ wait_from' = now
                 /\ UNCHANGED lerr
    /\ UNCHANGED <<staging, module_globals, txid, signals_sent, committed, now,
                   channel, lparams, started_at, notifies, dispatched, processed>>
    /\ UNCHANGED dbvars
    /\ UNCHANGED cvars

\* select.select returns the connection as readable; conn.poll() moves the
\* notifications that arrived to the end of conn.notifies.
SelectReadable ==
    /\ lpc = "select"
    /\ channel # <<>>
    /\ notifies' = notifies \o channel
    /\ channel' = <<>>
    /\ lpc' = "drain"
    /\ UNCHANGED <<staging, module_globals, txid, signals_sent, committed, now,
                   lparams, started_at, wait_from, dispatched, processed, lerr>>
    /\ UNCHANGED dbvars
    /\ UNCHANGED cvars

\* select.select returns three empty lists after poll_timeout seconds
SelectTimeout ==
    /\ lpc = "select"
    /\ channel = <<>>
    /\ now - wait_from >= lparams.poll_timeout
    /\ lpc' = "top"
    /\ UNCHANGED <<staging, module_globals, txid, signals_sent, committed, now,
                   channel, lparams, started_at, wait_from, notifies, dispatched,
                   processed, lerr>>
    /\ UNCHANGED dbvars
    /\ UNCHANGED cvars

\* list.pop(): the index it removes
pop(list) == Len(list)

\* the list emptied after one element was taken
ClearList(list, i) == <<>>

\* the list without its i-th element
Remove(list, i) == SubSeq(list, 1, i - 1) \o SubSeq(list, i + 1, Len(list))

\* while conn.notifies: yield conn.notifies.pop(), and the body of the for
\* loop for the notification it yields.  A receiver of one of the groups
\* the body sends to may raise.
ProcessNotify ==
    /\ lpc = "drain"
    /\ notifies # <<>>
    /\ LET notify == notifies[pop(notifies)]
           d == Decode(notify.payload)
       IN /\ notifies' = Remove(notifies, pop(notifies))
          /\ processed' = Append(processed, [src |-> notify.src, err |-> d.err])
          /\ IF d.err = NoError
             THEN \E k \in 0..Len(SendSignals(d.event.operation)) :
                     /\ dispatched' = dispatched \o Invocations(d.event, notify.src, k)
                     /\ IF k = 0
                        THEN UNCHANGED <<lpc, lerr>>
                        ELSE /\ lpc' = "failed"
                             /\ lerr' = "HandlerError"
             ELSE IF d.err \in Caught
             THEN UNCHANGED <<dispatched, lpc, lerr>>
             ELSE /\ lpc' = "failed"
                  /\ lerr' = d.err
                  /\ UNCHANGED dispatched
    /\ UNCHANGED <<staging, module_globals, txid, signals_sent, committed, now,
                   channel, lparams, started_at, wait_from>>
    /\ UNCHANGED dbvars
    /\ UNCHANGED cvars

\* conn.notifies is empty: back to the top of while True
DrainDone ==
    /\ lpc = "drain"
    /\ notifies = <<>>
    /\ lpc' = "top"
    /\ UNCHANGED <<staging, module_globals, txid, signals_sent, committed, now,
                   channel, lparams, started_at, wait_from, notifies, dispatched,
                   processed, lerr>>
    /\ UNCHANGED dbvars
    /\ UNCHANGED cvars

\* A second passes.  Time is counted only while listen is blocked in
\* select.select with nothing to read and its timeout not yet reached: the
\* steps of the loop themselves take no time, and listen measures time
\* from started_at on only.
Tick ==
    /\ now < MaxTime
    /\ lpc = "select"
    /\ channel = <<>>
    /\ now - wait_from < lparams.poll_timeout
    /\ now' = now + 1
    /\ UNCHANGED <<staging, module_globals, txid, signals_sent, committed, channel>>
    /\ UNCHANGED dbvars
    /\ UNCHANGED cvars
    /\ UNCHANGED lvars

\* ------------------------------------------------------- specification
\* the module namespace: stop_secs is bound nowhere in utils.py; a process
\* that binds it gives it None or a number of seconds
Namespaces ==
    {[n \in {} |-> None]}
    \cup {[n \in {"stop_secs"} |-> v] : v \in {None, Some(1)}}

\* the state outside the catalog and _func_created
InitRest ==
    /\ staging_table \in {[p \in Pairs |-> b] : b \in BOOLEAN}
    /\ staging = <<>>
    /\ module_globals \in Namespaces
    /\ last_call = [op |-> "none", table |-> "", events |-> {},
                    pair |-> <<"", "">>, had_trigger |-> FALSE, err |-> NoError]
    /\ calls = 0
    /\ bound_pairs = {}
    /\ txid = 1
    /\ signals_sent = 0
    /\ committed = <<>>
    /\ now = 0
    /\ lpc = "init"
    /\ lparams = [db |-> "", poll_timeout |-> 0, listen_timeout |-> None,
                  events_limit |-> None]
    /\ started_at = 0
    /\ wait_from = 0
    /\ channel = <<>>
    /\ notifies = <<>>
    /\ dispatched = <<>>
    /\ processed = <<>>
    /\ lerr = NoError
    /\ binds = [th \in Threads |-> IdleBind]
    /\ db_down = FALSE
    /\ installs = 0
    /\ overlapped = FALSE

\* a new process on a database without triggers and routines
Init ==
    /\ triggers = {}
    /\ routine = [p \in Pairs |-> FALSE]
    /\ func_created = FALSE
    /\ InitRest

\* The schema manager alone, with the row mutations its triggers capture.
InitSchema == Init /\ module_globals = [n \in {} |-> None]

NextSchema ==
    \/ \E t \in Tables, S \in SUBSET EventKind, p \in Pairs : BindTable(t, S, p)
    \/ \E t \in Tables, p \in Pairs : UnbindTable(t, p)
    \/ \E p \in Pairs : CreateEmitFunc(p)
    \/ \E p \in Pairs : CreateEmitFuncOnce(p)
    \/ \E t \in Tables, op \in EventKind, row \in Rows, p \in Pairs :
          Mutate(t, op, row, p)

SpecSchema == InitSchema /\ [][NextSchema]_vars

\* The listener alone, fed by NOTIFY commands on its channel.
InitListen == Init /\ staging_table = [p \in Pairs |-> TRUE]

NextListen ==
    \/ \E d \in Databases : Notify(d)
    \/ \E d \in Databases, pt \in PollTimeouts, lt \in ListenTimeouts,
          el \in EventsLimits : ListenStart(d, pt, lt, el)
    \/ IterTop
    \/ SelectReadable
    \/ SelectTimeout
    \/ ProcessNotify
    \/ DrainDone
    \/ Tick

SpecListen == InitListen /\ [][NextListen]_vars

\* The whole pipeline: bind_table, row mutations, the capture routine and
\* a listen() call with its default arguments.  The clock stands still:
\* the listener stays in select.select until a notification arrives.
PipelineBind(t, S, p) == calls < MaxPipelineCalls /\ BindTable(t, S, p)

Next ==
    \/ \E t \in Tables, S \in SUBSET EventKind, p \in Pairs : PipelineBind(t, S, p)
    \/ \E t \in Tables, op \in EventKind, row \in Rows, p \in Pairs :
          Mutate(t, op, row, p)
    \/ \E d \in Databases : ListenStart(d, DEFAULT_POLL_TIMEOUT, None, None)
    \/ IterTop
    \/ SelectReadable
    \/ ProcessNotify
    \/ DrainDone

Spec == Init /\ [][Next]_vars

\* One thread calling bind_table, again after a failure too, while the
\* database fails and recovers and rows are changed.  The process is new;
\* the database is empty or has table t1 bound by an earlier process.
BoundBefore ==
    [triggers |-> {[pair |-> <<"db1", "s1">>, table |-> "t1",
                    ops |-> {"INSERT", "UPDATE"}]},
     routine |-> [p \in Pairs |-> p = <<"db1", "s1">>],
     func_created |-> FALSE]

InitFaults ==
    /\ \/ /\ triggers = {}
          /\ routine = [p \in Pairs |-> FALSE]
          /\ func_created = FALSE
       \/ /\ triggers = BoundBefore.triggers
          /\ routine = BoundBefore.routine
          /\ func_created = BoundBefore.func_created
    /\ InitRest
    /\ staging_table = [p \in Pairs |-> TRUE]
    /\ module_globals = [n \in {} |-> None]

\* the events arguments of the calls: none, one kind, two kinds, all
RetriedSets == {{}, {"INSERT"}, {"UPDATE", "DELETE"}, ALL_EVENTS}

GapMutate(t, op, row, p) ==
    Len(committed) < MaxGapMutations /\ Mutate(t, op, row, p)

NextFaults ==
    \/ \E t \in Tables, S \in RetriedSets, p \in Pairs : BindEnter("a", t, S, p)
    \/ BindDrop("a")
    \/ BindOnceRead("a")
    \/ BindInstall("a")
    \/ BindSetFlag("a")
    \/ BindCreateTrigger("a")
    \/ DbFails
    \/ DbRecovers
    \/ \E t \in Tables, op \in EventKind, row \in Rows, p \in Pairs :
          GapMutate(t, op, row, p)

SpecFaults == InitFaults /\ [][NextFaults]_vars

\* The catalog and _func_created two concurrent calls can find: the
\* routine may be in a schema from an earlier process, and an earlier
\* call of this process may have bound the table.
PriorStates ==
    {w \in [triggers : SUBSET {[pair |-> p, table |-> t, ops |-> {"INSERT", "UPDATE"}] :
                                   p \in Pairs, t \in Tables},
            routine : [Pairs -> BOOLEAN],
            func_created : BOOLEAN] :
        /\ w.func_created => \E p \in Pairs : w.routine[p]
        /\ \A g \in w.triggers : w.routine[g.pair]}

\* Two threads of one process, each calling bind_table once, their
\* statements interleaved in every order.
InitThreads ==
    /\ \E w \in PriorStates :
          /\ triggers = w.triggers
          /\ routine = w.routine
          /\ func_created = w.func_created
    /\ InitRest
    /\ staging_table = [p \in Pairs |-> TRUE]
    /\ module_globals = [n \in {} |-> None]

ThreadEnter(th, t, S, p) == binds[th].pc = "idle" /\ BindEnter(th, t, S, p)

NextThreads ==
    \/ \E th \in Threads, t \in Tables, S \in SUBSET EventKind, p \in Pairs :
          ThreadEnter(th, t, S, p)
    \/ \E th \in Threads : BindDrop(th)
    \/ \E th \in Threads : BindOnceRead(th)
    \/ \E th \in Threads : BindInstall(th)
    \/ \E th \in Threads : BindSetFlag(th)
    \/ \E th \in Threads : BindCreateTrigger(th)

SpecThreads == InitThreads /\ [][NextThreads]_vars

\* ============================================================== claims
\* listen is blocked in select.select with nothing left to read or process
Quiescent == lpc = "select" /\ channel = <<>> /\ notifies = <<>>

\* the handler group invocations made for the notification sent by src
InvocationsOf(src) == SelectSeq(dispatched, LAMBDA e : e.src = src)
GroupsOf(src) == {dispatched[i].group : i \in {j \in DOMAIN dispatched : dispatched[j].src = src}}
GroupSeqOf(src) == [i \in DOMAIN InvocationsOf(src) |-> InvocationsOf(src)[i].group]

\* a receiver raised while the notification sent by src was dispatched
Raised(src) == \E i \in DOMAIN dispatched : dispatched[i].src = src /\ dispatched[i].raised

\* the Events dispatched: one invocation of the generic group each
EventIndexes == {i \in DOMAIN dispatched : dispatched[i].group = "pgsignals_event"}
EventsOf(src) == {i \in EventIndexes : dispatched[i].src = src}

\* C1: once the listener has processed everything it received, every row
\* mutation committed while it was listening has exactly one dispatched
\* Event, of the mutation's kind, when its kind is in the set the table is
\* bound for, and none otherwise.
C1_OneEventPerBoundMutation ==
    Quiescent =>
        \A i \in DOMAIN committed :
            LET m == committed[i] IN
            m.heard =>
                /\ Cardinality(EventsOf(m.txid)) = IF m.captured THEN 1 ELSE 0
                /\ \A j \in EventsOf(m.txid) : dispatched[j].operation = m.kind

\* C2: an UPDATE event none of whose receivers raises is dispatched to
\* exactly the generic, the insert-or-update and the update group.
C2_UpdateGroups ==
    \A i \in DOMAIN dispatched :
        (dispatched[i].operation = "UPDATE" /\ ~Raised(dispatched[i].src)) =>
            GroupsOf(dispatched[i].src) =
                {"pgsignals_event", "pgsignals_insert_or_update_event",
                 "pgsignals_update_event"}

\* the dispatcher's groups in their fixed order, and the predicate of each
GroupOrder ==
    <<"pgsignals_event", "pgsignals_insert_event",
      "pgsignals_insert_or_update_event", "pgsignals_update_event",
      "pgsignals_delete_event">>
GroupMatches(g, op) ==
    CASE g = "pgsignals_event" -> TRUE
      [] g = "pgsignals_insert_event" -> is_create(op)
      [] g = "pgsignals_insert_or_update_event" -> is_save(op)
      [] g = "pgsignals_update_event" -> is_update(op)
      [] g = "pgsignals_delete_event" -> is_delete(op)

\* C3: for every dispatched event none of whose receivers raises the
\* groups invoked are, in the fixed order, exactly the groups whose
\* predicate holds for the event's kind.
C3_GroupsInOrderByPredicate ==
    \A i \in DOMAIN dispatched :
        LET e == dispatched[i] IN
        ~Raised(e.src) =>
        GroupSeqOf(e.src) = SelectSeq(GroupOrder, LAMBDA g : GroupMatches(g, e.operation))

\* the exceptions of the decoding step
DecodeFailures == {"JSONDecodeError", "TypeError", "KeyError", "ValueError"}

\* C4: a payload that does not decode invokes no handler group, and its
\* failure does not end listen.
C4_DecodeFailureSkipped ==
    /\ ~(lpc = "failed" /\ lerr \in DecodeFailures)
    /\ \A i \in DOMAIN processed :
          processed[i].err # NoError => GroupsOf(processed[i].src) = {}

\* C5: a listener started with events_limit = N has dispatched at most N events.
C5_EventsLimit ==
    lparams.events_limit # None =>
        Cardinality(EventIndexes) <= lparams.events_limit[1]

\* C6: a listener started with listen_timeout = T has stopped once more
\* than T seconds have passed since started_at.
C6_ListenTimeout ==
    (lpc \in {"top", "select", "drain"} /\ lparams.listen_timeout # None) =>
        now - started_at <= lparams.listen_timeout[1]

\* the triggers of table t in pair p
TriggersOn(trs, t, p) == {g \in trs : g.pair = p /\ g.table = t}

C8_CommitOrder ==
    \A i, j \in DOMAIN dispatched :
        i < j => dispatched[i].src <= dispatched[j].src

\* C9: after create_emit_func(db, schema) the pair has the staging log
\* table and the capture routine, and the call did not fail.
C9_InstallLeavesTableAndRoutine ==
    last_call.op = "create_emit_func" =>
        /\ last_call.err = NoError
        /\ routine[last_call.pair]
        /\ staging_table[last_call.pair]

\* C10: every pair that received bind_table with a non-empty set has the
\* capture routine, and every trigger's routine exists in its own pair.
C10_RoutinePerPair ==
    /\ \A p \in bound_pairs : routine[p]
    /\ \A g \in triggers : routine[g.pair]

\* C11: unbind_table on a table that has no trigger raises nothing and
\* leaves the triggers, the capture routine, the staging log and
\* _func_created as they were.
C11_UnbindUnboundIsNoOp ==
    [][(/\ calls' = calls + 1
        /\ last_call'.op = "unbind_table"
        /\ ~last_call'.had_trigger)
       => /\ last_call'.err = NoError
          /\ triggers' = triggers
          /\ routine' = routine
          /\ staging' = staging
          /\ staging_table' = staging_table
          /\ func_created' = func_created]_vars

\* C11 witness: unbind_table has run on a table without a trigger while
\* the other schema held a trigger and the routine was installed
C11_UnboundUnbound ==
    /\ last_call.op = "unbind_table"
    /\ ~last_call.had_trigger
    /\ last_call.err = NoError
    /\ triggers # {}
    /\ func_created

\* C12: an exception of a receiver is not caught: the invocation that
\* raised is the last one listen makes, so no later group is invoked for
\* the event and no later event is dispatched, and listen has ended with
\* that exception.
C12_HandlerFailureEndsListen ==
    \A i \in DOMAIN dispatched :
        dispatched[i].raised =>
            /\ i = Len(dispatched)
            /\ lpc = "failed"
            /\ lerr = "HandlerError"

\* C12 witness: a receiver of the insert group raised after the generic
\* group was invoked, while another notification waited in conn.notifies
C12_RaisedMidEvent ==
    /\ notifies # <<>>
    /\ \E i \in DOMAIN dispatched :
          /\ dispatched[i].raised
          /\ dispatched[i].group = "pgsignals_insert_event"
          /\ i > 1
          /\ dispatched[i - 1].src = dispatched[i].src

\* C13: a decoded event whose table is the table of no model is
\* dispatched, with sender None, to the same groups in the same order as an
\* event of the same kind whose sender resolves, and listen does not end
\* because of it: listen ends only by NameError, or with the last
\* notification it processed failing to decode or a receiver raising.
C13_SenderMissStillDispatched ==
    /\ \A i \in DOMAIN processed :
          processed[i].err = NoError => EventsOf(processed[i].src) # {}
    /\ \A i \in DOMAIN dispatched :
          dispatched[i].sender = None <=> dispatched[i].table \notin ModelTables
    /\ \A i, j \in DOMAIN dispatched :
          (/\ dispatched[i].sender = None
           /\ dispatched[j].sender # None
           /\ dispatched[i].operation = dispatched[j].operation
           /\ ~Raised(dispatched[i].src)
           /\ ~Raised(dispatched[j].src))
          => GroupSeqOf(dispatched[i].src) = GroupSeqOf(dispatched[j].src)
    /\ (lpc = "failed" /\ lerr # "NameError") =>
          /\ processed # <<>>
          /\ LET l == processed[Len(processed)] IN
             IF l.err = NoError THEN Raised(l.src) ELSE l.err \notin Caught

\* C13 witness: an event with sender None was dispatched and after it an
\* event of the same kind whose sender resolved
C13_MissThenResolved ==
    \E i, j \in DOMAIN dispatched :
        /\ i < j
        /\ dispatched[i].sender = None
        /\ dispatched[j].sender # None
        /\ dispatched[i].operation = dispatched[j].operation
        /\ dispatched[i].src # dispatched[j].src
        /\ ~Raised(dispatched[j].src)

\* the places a notification sent by src is at: not yet polled, in
\* conn.notifies, or handed to the loop body
PlacesOf(src) ==
    Cardinality({i \in DOMAIN channel : channel[i].src = src})
    + Cardinality({i \in DOMAIN notifies : notifies[i].src = src})
    + Cardinality({i \in DOMAIN processed : processed[i].src = src})

\* C15: whenever listen is back in select.select, conn.notifies is empty,
\* and no notification is ever lost or handed to the loop body twice: each
\* one sent is still unpolled, or in conn.notifies, or was handed over once.
C15_DrainBeforeWait ==
    /\ lpc = "select" => notifies = <<>>
    /\ \A src \in 1..(txid - 1) : PlacesOf(src) = 1

\* C15 witness: listen is back in select.select after one wake-up that
\* found two notifications (the later one was handed over first)
C15_TwoDrained ==
    /\ lpc = "select"
    /\ Len(processed) = 2
    /\ processed[1].src > processed[2].src

\* C14: once the listener has processed everything it received, an INSERT
\* committed on a table bound for INSERT while it was listening has a
\* dispatched Event of kind INSERT with row_before null and row_after the
\* inserted row; and every dispatched INSERT Event has only row_after,
\* every dispatched DELETE Event only row_before.
C14_RowContentRoundTrip ==
    /\ Quiescent =>
          \A i \in DOMAIN committed :
              LET m == committed[i] IN
              (m.heard /\ m.captured /\ m.kind = "INSERT") =>
                  \E j \in EventsOf(m.txid) :
                      /\ dispatched[j].operation = "INSERT"
                      /\ dispatched[j].row_before = Null
                      /\ dispatched[j].row_after = m.row
    /\ \A j \in EventIndexes :
          /\ dispatched[j].operation = "INSERT" =>
                dispatched[j].row_before = Null /\ dispatched[j].row_after # Null
          /\ dispatched[j].operation = "DELETE" =>
                dispatched[j].row_before # Null /\ dispatched[j].row_after = Null

\* C18: every notification the capture routine sends carries the empty
\* payload; the loop body decodes that payload only, so each one fails with
\* JSONDecodeError, is skipped without any group being invoked, and does
\* not end listen.
C18_CapturedSignalsSkipped ==
    /\ \A i \in DOMAIN channel : channel[i].payload = EmptyText
    /\ \A i \in DOMAIN notifies : notifies[i].payload = EmptyText
    /\ \A i \in DOMAIN processed :
          /\ processed[i].err = "JSONDecodeError"
          /\ GroupsOf(processed[i].src) = {}
    /\ dispatched = <<>>
    /\ lpc = "failed" => lerr = "NameError"

\* C18 witness: the notification of a committed, captured mutation was
\* handed to the loop body and skipped, its event record lies in the
\* staging log, and listen is waiting again
C18_SkippedWhileStaged ==
    /\ lpc = "select"
    /\ \E i \in DOMAIN processed, j \in DOMAIN committed, k \in DOMAIN staging :
          /\ processed[i].src = committed[j].txid
          /\ committed[j].captured
          /\ staging[k].payload.txid = committed[j].txid

\* the thread's call has ended, by return or by exception
Ended(th) == binds[th].pc = "done"
Failed(th) == Ended(th) /\ binds[th].err # NoError
TriggerOf(th) ==
    [pair |-> binds[th].pair, table |-> binds[th].table, ops |-> binds[th].events]

C19_BindNotAtomic ==
    LET b == binds["a"] IN
    /\ (Failed("a") /\ b.stage \in {"install", "trigger"}) =>
          ~HasTrigger(triggers, b.table, b.pair)
    /\ b.pc \in GapSteps => ~HasTrigger(triggers, b.table, b.pair)
    /\ \A i \in DOMAIN committed : committed[i].gap => ~committed[i].captured

\* C19 witness: the table was bound, a mutation of a kind in both the old
\* and the new set was committed between the DROP and the CREATE, and the
\* call then raised in CREATE TRIGGER
C19_LostInGapThenFailed ==
    LET b == binds["a"] IN
    /\ Failed("a")
    /\ b.stage = "trigger"
    /\ b.old_ops # {}
    /\ \E i \in DOMAIN committed :
          /\ committed[i].gap
          /\ committed[i].table = b.table
          /\ committed[i].pair = b.pair
          /\ committed[i].kind \in b.old_ops \cap b.events

\* C20: a table never has more than one trigger; when the two calls were
\* between their DROP TRIGGER and their CREATE TRIGGER of the same table at
\* once (drop, drop, create, create) and both have ended, at most one of
\* them returned: the other raised, with DuplicateObject when the first
\* CREATE TRIGGER succeeded, and the table has the trigger of the call
\* that returned.
C20_SecondCreateRaises ==
    /\ \A t \in Tables, p \in Pairs : Cardinality(TriggersOn(triggers, t, p)) <= 1
    /\ (overlapped /\ \A th \in Threads : Ended(th)) =>
          /\ \E th \in Threads : binds[th].err # NoError
          /\ \A th, ot \in Threads :
                (th # ot /\ binds[th].err = NoError) =>
                    /\ binds[ot].err = "DuplicateObject"
                    /\ TriggersOn(triggers, binds[th].table, binds[th].pair) =
                          {TriggerOf(th)}

\* C20 witness: both calls dropped before either created, with different
\* sets; one returned and the other raised DuplicateObject
C20_DropDropCreateCreate ==
    /\ overlapped
    /\ binds["a"].events # binds["b"].events
    /\ binds["a"].err = NoError
    /\ Ended("a")
    /\ Ended("b")
    /\ binds["b"].err = "DuplicateObject"

====
